---- MODULE Spec2Model ----
(***************************************************************************)
(* The session store and the response annotator of the medical assistant  *)
(* (src/assistant.py), called by concurrent request tasks (src/main.py).   *)
(*                                                                         *)
(* A text is a sequence of one-character strings.  A session object is a   *)
(* record on a heap (objs); the store (sessions) maps an id to a heap      *)
(* reference, so that a task's local reference to a session that has been  *)
(* removed or replaced still denotes the old object, as in Python.         *)
(***************************************************************************)
EXTENDS Integers, Sequences, FiniteSets, TLC

\* ----------------------------------------------------------------- bounds
\* The number of store operations started in a run of one request at a time.
MaxCalls == 4
\* The number of store operations started in a run of concurrent requests.
MaxConcurrentCalls == 3

\* ------------------------------------------------------------------ texts
UpperLetters ==
    <<"A", "B", "C", "D", "E", "F", "G", "H", "I", "J", "K", "L", "M", "N", "O", "P", "Q", "R",
      "S", "T", "U", "V", "W", "X", "Y", "Z">>
LowerLetters ==
    <<"a", "b", "c", "d", "e", "f", "g", "h", "i", "j", "k", "l", "m", "n", "o", "p", "q", "r",
      "s", "t", "u", "v", "w", "x", "y", "z">>

\* str.lower() on one character: ASCII letters, and the dotless i, which
\* Python leaves alone ('ı'.lower() == 'ı').
LowerChar(c) ==
    IF \E i \in 1..26 : UpperLetters[i] = c
    THEN LowerLetters[CHOOSE i \in 1..26 : UpperLetters[i] = c]
    ELSE c

\* str.upper() on one character; 'ı'.upper() == 'I'.
UpperChar(c) ==
    IF c = "i_dotless" THEN "I"
    ELSE IF \E i \in 1..26 : LowerLetters[i] = c
    THEN UpperLetters[CHOOSE i \in 1..26 : LowerLetters[i] = c]
    ELSE c

lower(text) == [i \in 1..Len(text) |-> LowerChar(text[i])]
upper(text) == [i \in 1..Len(text) |-> UpperChar(text[i])]

\* Python's `needle in hay` on strings.
Contains(hay, needle) ==
    \E i \in 0..(Len(hay) - Len(needle)) : SubSeq(hay, i + 1, i + Len(needle)) = needle

\* The list of assistant.py:292-296, as written there.
emergency_keywords ==
    << <<"e", "m", "e", "r", "g", "e", "n", "c", "y">>,
      <<"9", "1", "1">>,
      <<"u", "r", "g", "e", "n", "t", " ", "c", "a", "r", "e">>,
      <<"i", "m", "m", "e", "d", "i", "a", "t", "e", "l", "y">>,
      <<"c", "a", "l", "l", " ", "a", "n", " ", "a", "m", "b", "u", "l", "a", "n", "c", "e">>,
      <<"g", "o", " ", "t", "o", " ", "t", "h", "e", " ", "E", "R">>,
      <<"e", "m", "e", "r", "g", "e", "n", "c", "y", " ", "r", "o", "o", "m">>,
      <<"l", "i", "f", "e", "-", "t", "h", "r", "e", "a", "t", "e", "n", "i", "n", "g">>,
      <<"s", "e", "e", "k", " ", "i", "m", "m", "e", "d", "i", "a", "t", "e">>,
      <<"c", "r", "i", "t", "i", "c", "a", "l">> >>

\* Mutant: the keywords are looked for in the text as it is, not lower-cased.
detect_emergency_cased(response_text) ==
    \E k \in 1..Len(emergency_keywords) : Contains(response_text, emergency_keywords[k])

detect_emergency(response_text) ==
    LET response_lower == lower(response_text)
    IN  \E k \in 1..Len(emergency_keywords) : Contains(response_lower, emergency_keywords[k])

\* ------------------------------------------------------- the session store
Tasks == {"t1", "t2"}
\* The tasks are interchangeable: when none is running, this one takes the request.
FirstTask == "t1"
Sids == {"s1", "s2"}
Msgs == {"m_headache"}
Replies == {"r_rest", "r_911"}
Errors == {"e_quota", "e_rate_limit", "e_permission", "e_invalid_key", "e_boom"}

\* The reply texts of the provider (the two replies of the spec's scenario).
ReplyText(r) ==
    IF r = "r_rest"
    THEN
        <<"Y", "o", "u", " ", "s", "h", "o", "u", "l", "d", " ", "r", "e", "s", "t", " ", "a",
          "n", "d", " ", "m", "o", "n", "i", "t", "o", "r", " ", "y", "o", "u", "r", " ", "s",
          "y", "m", "p", "t", "o", "m", "s">>
    ELSE
        <<"T", "h", "i", "s", " ", "m", "a", "y", " ", "b", "e", " ", "a", "n", " ", "e", "m",
          "e", "r", "g", "e", "n", "c", "y", " ", "-", " ", "c", "a", "l", "l", " ", "9", "1",
          "1", " ", "i", "m", "m", "e", "d", "i", "a", "t", "e", "l", "y">>

\* The text of the user's message.
MsgText(m) ==
    <<"I", "s", " ", "a", " ", "h", "e", "a", "d", "a", "c", "h", "e", " ", "a", "n", " ", "e",
      "m", "e", "r", "g", "e", "n", "c", "y", "?">>

\* The text of a turn of chat.history.
TurnText(turn) == IF turn[1] = "user" THEN MsgText(turn[2]) ELSE ReplyText(turn[2])

\* str(e) of the provider's exceptions.
ErrorText(e) ==
    CASE e = "e_quota" ->
          <<"4", "2", "9", " ", "Q", "u", "o", "t", "a", " ", "e", "x", "c", "e", "e", "d",
            "e", "d">>
      [] e = "e_rate_limit" ->
          <<"4", "2", "9", " ", "R", "a", "t", "e", " ", "l", "i", "m", "i", "t", " ", "e",
            "x", "c", "e", "e", "d", "e", "d">>
      [] e = "e_permission" ->
          <<"4", "0", "3", " ", "P", "e", "r", "m", "i", "s", "s", "i", "o", "n", " ", "d",
            "e", "n", "i", "e", "d">>
      [] e = "e_invalid_key" ->
          <<"4", "0", "0", " ", "A", "P", "I", "_", "K", "E", "Y", "_", "I", "N", "V", "A",
            "L", "I", "D">>
      [] OTHER ->
          <<"b", "o", "o", "m">>

NoSession == 0
NoTime == 0

VARIABLES
    sessions,   \* self.sessions: id -> reference into objs, NoSession when absent
    objs,       \* the session dicts ever created, each with its chat's history
    pc,         \* each task's position in the operation it runs
    frame,      \* each task's arguments and local variables
    result,     \* what each task's last operation returned (or raised)
    calls,      \* operations started so far
    pre,        \* history variable: the store as the task's operation saw it begin
    how,        \* history variable: what last happened to each id, and to which object
    log,        \* history variable: per session object, its creation time, the exchanges
                \* that returned a response on it and the time of the last of them
    atext,      \* the annotator's input text
    aflags,     \* the annotator's answers on atext, upper(atext), lower(atext)
    apc,        \* the annotator's position
    medical_assistant   \* the global instance of assistant.py:357-364, or None

storeVars == <<sessions, objs, log, how>>
annotVars == <<atext, aflags, apc>>
\* What no method of the store writes.
restVars == <<annotVars, medical_assistant>>
vars == <<sessions, objs, pc, frame, result, calls, pre, how, log,
          atext, aflags, apc, medical_assistant>>

NoResult == [kind |-> "none"]
NoFrame == [op |-> "none", sid |-> "none", msg |-> "none", session |-> NoSession,
            tmp |-> 0, response |-> "none", hist |-> <<>>, n |-> 0, sends |-> 0]
Fresh == [as |-> "fresh", obj |-> NoSession]
NoPre == [obj |-> NoSession, count |-> 0, last |-> NoTime, turns |-> 0,
          nobjs |-> 0, how |-> Fresh, ids |-> {}, alone |-> TRUE, at |-> NoTime]

\* datetime.now(): time is counted in operations started, so it never runs backwards
\* and no two operations begin at the same time.  In the step that starts an
\* operation the time is calls + 1, in a later step it is calls.
NowAtStart == calls + 1
NowRunning == calls

\* `session_id in self.sessions`
Present(s) == sessions[s] # NoSession

ActiveIds == {s \in Sids : Present(s)}

\* The session stored under a present id.
Stored(s) == objs[sessions[s]]

Snapshot(s) ==
    [obj |-> sessions[s],
     count |-> IF Present(s) THEN Stored(s).message_count ELSE 0,
     last |-> IF Present(s) THEN Stored(s).last_interaction ELSE NoTime,
     turns |-> IF Present(s) THEN Len(Stored(s).history) ELSE 0,
     nobjs |-> Len(objs),
     how |-> how[s],
     ids |-> ActiveIds,
     alone |-> \A u \in Tasks : pc[u] = "idle",
     at |-> NowAtStart]

\* Mutant: a new session counts the exchange that will follow.
new_session_counted(now) ==
    [created_at |-> now, message_count |-> 1, last_interaction |-> NoTime, history |-> <<>>]

\* The dict of assistant.py:192-196 around a chat started with history=[].
new_session(now) ==
    [created_at |-> now, message_count |-> 0, last_interaction |-> NoTime, history |-> <<>>]

\* Mutant: the count goes up by two.
NextCountTwice(c) == c + 2

\* session["message_count"] += 1: the value stored for a value loaded.
NextCount(c) == c + 1

\* The classification of assistant.py:266-274.
error_message(error_msg) ==
    IF Contains(error_msg, <<"A", "P", "I", "_", "K", "E", "Y", "_", "I", "N", "V", "A", "L", "I", "D">>)
       \/ Contains(lower(error_msg), <<"i", "n", "v", "a", "l", "i", "d", " ", "a", "p", "i", " ", "k", "e", "y">>)
    THEN "invalid_api_key"
    ELSE IF Contains(lower(error_msg), <<"q", "u", "o", "t", "a">>) THEN "quota_exceeded"
    ELSE IF Contains(lower(error_msg), <<"p", "e", "r", "m", "i", "s", "s", "i", "o", "n">>) THEN "permission_denied"
    ELSE "api_error"

\* assistant.py:249, self._detect_emergency(response.text), for each reply of the
\* provider.
is_emergency == [r \in Replies |-> detect_emergency(ReplyText(r))]

\* assistant.py:266-274, the message for each exception of the provider.
message == [e \in Errors |-> error_message(ErrorText(e))]

Init ==
    /\ sessions = [s \in Sids |-> NoSession]
    /\ objs = <<>>
    /\ pc = [t \in Tasks |-> "idle"]
    /\ frame = [t \in Tasks |-> NoFrame]
    /\ result = [t \in Tasks |-> NoResult]
    /\ calls = 0
    /\ pre = [t \in Tasks |-> NoPre]
    /\ how = [s \in Sids |-> Fresh]
    /\ log = <<>>
    /\ atext = <<>>
    /\ aflags = <<FALSE, FALSE, FALSE>>
    /\ apc = "off"
    /\ medical_assistant = "instance"

\* What is kept of the tasks other than t when t starts an operation: a task that
\* has returned keeps its frame and its result until the next operation starts.
Kept(t, f, none) == [u \in Tasks |-> IF u = t \/ pc[u] = "idle" THEN none ELSE f[u]]

\* Task t starts an operation with frame fr, the store seen as snapshot sn.  The
\* tasks being interchangeable, FirstTask serves the request that finds none running.
Start(t, fr, sn) ==
    /\ pc[t] = "idle"
    /\ t = FirstTask \/ pc[FirstTask] # "idle"
    /\ calls < MaxCalls
    /\ calls' = calls + 1
    /\ frame' = [Kept(t, frame, NoFrame) EXCEPT ![t] = fr]
    /\ pre' = [Kept(t, pre, NoPre) EXCEPT ![t] = sn]

\* Task t starts operation o on id s with message m.
Begin(t, o, s, m) ==
    Start(t, [NoFrame EXCEPT !.op = o, !.sid = s, !.msg = m], Snapshot(s))

\* The started operation goes on at label.
Enter(t, label) ==
    /\ pc' = [pc EXCEPT ![t] = label]
    /\ result' = Kept(t, result, NoResult)

\* The started operation returns r in the same step.
ReturnAtOnce(t, r) ==
    /\ pc' = pc
    /\ result' = [Kept(t, result, NoResult) EXCEPT ![t] = r]

\* The operation of task t returns r (or raises, r.kind = "raise").
Return(t, r) ==
    /\ pc' = [pc EXCEPT ![t] = "idle"]
    /\ result' = [result EXCEPT ![t] = r]

Goto(t, label) ==
    /\ pc' = [pc EXCEPT ![t] = label]
    /\ UNCHANGED result

\* Mutant: an id that is present keeps its session.
create_session_store_once(s, now) ==
    IF Present(s)
    THEN UNCHANGED storeVars
    ELSE /\ objs' = Append(objs, new_session(now))
         /\ sessions' = [sessions EXCEPT ![s] = Len(objs) + 1]
         /\ log' = Append(log, [born |-> now, exchanges |-> 0, last |-> NoTime])
         /\ how' = [how EXCEPT ![s] = [as |-> "live", obj |-> Len(objs) + 1]]

\* Mutant: the store holds one session, a new one evicts the others.
create_session_store_single(s, now) ==
    /\ objs' = Append(objs, new_session(now))
    /\ sessions' = [x \in Sids |-> IF x = s THEN Len(objs) + 1 ELSE NoSession]
    /\ log' = Append(log, [born |-> now, exchanges |-> 0, last |-> NoTime])
    /\ how' = [how EXCEPT ![s] = [as |-> "live", obj |-> Len(objs) + 1]]

\* create_session, assistant.py:191-196: a new chat and a new dict, stored under s
\* whatever was there.
create_session_store(s, now) ==
    /\ objs' = Append(objs, new_session(now))
    /\ sessions' = [sessions EXCEPT ![s] = Len(objs) + 1]
    /\ log' = Append(log, [born |-> now, exchanges |-> 0, last |-> NoTime])
    /\ how' = [how EXCEPT ![s] = [as |-> "live", obj |-> Len(objs) + 1]]

CreateFailed == [kind |-> "error", error |-> "e_start_chat", message |-> "create_failed"]

\* create_session(session_id), assistant.py:174-208; start_chat may raise.
create_session(t) ==
    \E s \in Sids :
        /\ Begin(t, "create_session", s, "none")
        /\ \/ /\ create_session_store(s, NowAtStart)
              /\ ReturnAtOnce(t, [kind |-> "created", session_id |-> s])
           \/ /\ UNCHANGED storeVars
              /\ ReturnAtOnce(t, CreateFailed)
        /\ UNCHANGED restVars

\* Mutant: an unknown id is an error, no lazy creation.
get_response_begin_strict(t) ==
    \E s \in Sids, m \in Msgs :
        /\ Begin(t, "get_response", s, m)
        /\ IF Present(s)
           THEN Enter(t, "gr_lookup")
           ELSE ReturnAtOnce(t, [kind |-> "error", error |-> "Session not found"])
        /\ UNCHANGED <<storeVars, restVars>>

\* get_response, assistant.py:221-230: the membership test.
get_response_begin(t) ==
    \E s \in Sids, m \in Msgs :
        /\ Begin(t, "get_response", s, m)
        /\ Enter(t, IF Present(s) THEN "gr_lookup" ELSE "gr_create")
        /\ UNCHANGED <<storeVars, restVars>>

\* assistant.py:231-233: the lazy create_session and its error return.
get_response_create(t) ==
    /\ pc[t] = "gr_create"
    /\ \/ /\ create_session_store(frame[t].sid, NowRunning)
          /\ Goto(t, "gr_lookup")
       \/ /\ UNCHANGED storeVars
          /\ Return(t, CreateFailed)
    /\ UNCHANGED <<frame, calls, pre, restVars>>

\* Mutant: the lookup waits until the id is in the store.
get_response_lookup_waiting(t) ==
    /\ pc[t] = "gr_lookup"
    /\ Present(frame[t].sid)
    /\ frame' = [frame EXCEPT ![t].session = sessions[frame[t].sid],
                              ![t].sends = @ + 1]
    /\ Goto(t, "gr_wait")
    /\ UNCHANGED <<storeVars, calls, pre, restVars>>

\* assistant.py:235-242: session = self.sessions[session_id] (a KeyError when the id
\* has been removed meanwhile, outside the try), then the message is sent; sends
\* counts the calls of chat.send_message by the operation.
get_response_lookup(t) ==
    /\ pc[t] = "gr_lookup"
    /\ IF Present(frame[t].sid)
       THEN /\ frame' = [frame EXCEPT ![t].session = sessions[frame[t].sid],
                                      ![t].sends = @ + 1]
            /\ Goto(t, "gr_wait")
       ELSE /\ Return(t, [kind |-> "raise", exc |-> "KeyError"])
            /\ UNCHANGED frame
    /\ UNCHANGED <<storeVars, calls, pre, restVars>>

\* chat.send_message returns: the provider has appended the two turns to the chat.
send_message_returns(t) ==
    /\ pc[t] = "gr_wait"
    /\ \E r \in Replies :
        /\ objs' = [objs EXCEPT ![frame[t].session].history =
                       Append(Append(@, <<"user", frame[t].msg>>), <<"model", r>>)]
        /\ frame' = [frame EXCEPT ![t].response = r]
    /\ Goto(t, "gr_load")
    /\ UNCHANGED <<sessions, log, how, calls, pre, restVars>>

\* Mutant: the count is incremented before the outcome of the send is known.
send_message_raises_counting(t) ==
    /\ pc[t] = "gr_wait"
    /\ \E e \in Errors :
        Return(t, [kind |-> "error", session_id |-> frame[t].sid, error |-> e,
                   message |-> message[e]])
    /\ objs' = [objs EXCEPT ![frame[t].session].message_count = @ + 1]
    /\ UNCHANGED <<sessions, log, how, frame, calls, pre, restVars>>

\* Mutant: a failed send is tried once more before the error is returned.
send_message_raises_retrying(t) ==
    /\ pc[t] = "gr_wait"
    /\ IF frame[t].sends < 2
       THEN /\ frame' = [frame EXCEPT ![t].sends = @ + 1]
            /\ UNCHANGED <<pc, result>>
       ELSE /\ \E e \in Errors :
                Return(t, [kind |-> "error", session_id |-> frame[t].sid, error |-> e,
                           message |-> message[e]])
            /\ UNCHANGED frame
    /\ UNCHANGED <<storeVars, calls, pre, restVars>>

\* Mutant: a failed exchange removes the session it has created.
send_message_raises_rollback(t) ==
    /\ pc[t] = "gr_wait"
    /\ \E e \in Errors :
        Return(t, [kind |-> "error", session_id |-> frame[t].sid, error |-> e,
                   message |-> message[e]])
    /\ IF pre[t].obj = NoSession
       THEN /\ sessions' = [sessions EXCEPT ![frame[t].sid] = NoSession]
            /\ how' = [how EXCEPT ![frame[t].sid].as = "ended"]
       ELSE UNCHANGED <<sessions, how>>
    /\ UNCHANGED <<objs, log, frame, calls, pre, restVars>>

\* chat.send_message raises: assistant.py:262-280.
send_message_raises(t) ==
    /\ pc[t] = "gr_wait"
    /\ \E e \in Errors :
        Return(t, [kind |-> "error", session_id |-> frame[t].sid, error |-> e,
                   message |-> message[e]])
    /\ UNCHANGED <<storeVars, frame, calls, pre, restVars>>

\* assistant.py:245, the read of session["message_count"].
message_count_load(t) ==
    /\ pc[t] = "gr_load"
    /\ frame' = [frame EXCEPT ![t].tmp = objs[frame[t].session].message_count]
    /\ Goto(t, "gr_store")
    /\ UNCHANGED <<storeVars, calls, pre, restVars>>

\* Mutant: last_interaction is not written.
message_count_store_no_stamp(t) ==
    /\ pc[t] = "gr_store"
    /\ objs' = [objs EXCEPT ![frame[t].session].message_count = NextCount(frame[t].tmp)]
    /\ frame' = [frame EXCEPT ![t].tmp = 0]
    /\ Goto(t, "gr_return")
    /\ UNCHANGED <<sessions, log, how, calls, pre, restVars>>

\* Mutant: the exchange stores its session under the id again.
message_count_store_restoring(t) ==
    /\ pc[t] = "gr_store"
    /\ objs' = [objs EXCEPT ![frame[t].session].message_count = NextCount(frame[t].tmp),
                            ![frame[t].session].last_interaction = NowRunning]
    /\ sessions' = [sessions EXCEPT ![frame[t].sid] = frame[t].session]
    /\ frame' = [frame EXCEPT ![t].tmp = 0]
    /\ Goto(t, "gr_return")
    /\ UNCHANGED <<log, how, calls, pre, restVars>>

\* Mutant: the count is written to every session of the store.
message_count_store_all(t) ==
    /\ pc[t] = "gr_store"
    /\ objs' = [o \in 1..Len(objs) |->
                   IF o = frame[t].session
                   THEN [objs[o] EXCEPT !.message_count = NextCount(frame[t].tmp),
                                        !.last_interaction = NowRunning]
                   ELSE [objs[o] EXCEPT !.message_count = NextCount(@)]]
    /\ frame' = [frame EXCEPT ![t].tmp = 0]
    /\ Goto(t, "gr_return")
    /\ UNCHANGED <<sessions, log, how, calls, pre, restVars>>

\* assistant.py:245-246, the write of the count and of last_interaction.
message_count_store(t) ==
    /\ pc[t] = "gr_store"
    /\ objs' = [objs EXCEPT ![frame[t].session].message_count = NextCount(frame[t].tmp),
                            ![frame[t].session].last_interaction = NowRunning]
    /\ frame' = [frame EXCEPT ![t].tmp = 0]
    /\ Goto(t, "gr_return")
    /\ UNCHANGED <<sessions, log, how, calls, pre, restVars>>

\* Mutant: the annotation is of the whole conversation, not of the reply.
get_response_return_conversation(t) ==
    /\ pc[t] = "gr_return"
    /\ Return(t, [kind |-> "response",
                  session_id |-> frame[t].sid,
                  user_message |-> frame[t].msg,
                  assistant_response |-> frame[t].response,
                  is_emergency |->
                      \E i \in 1..Len(objs[frame[t].session].history) :
                          detect_emergency(TurnText(objs[frame[t].session].history[i])),
                  timestamp |-> NowRunning,
                  message_count |-> objs[frame[t].session].message_count])
    /\ log' = [log EXCEPT ![frame[t].session].exchanges = @ + 1,
                          ![frame[t].session].last = NowRunning]
    /\ UNCHANGED <<sessions, objs, how, frame, calls, pre, restVars>>

\* assistant.py:249-260: the annotation and the result, with the count read again.
get_response_return(t) ==
    /\ pc[t] = "gr_return"
    /\ Return(t, [kind |-> "response",
                  session_id |-> frame[t].sid,
                  user_message |-> frame[t].msg,
                  assistant_response |-> frame[t].response,
                  is_emergency |-> is_emergency[frame[t].response],
                  timestamp |-> NowRunning,
                  message_count |-> objs[frame[t].session].message_count])
    /\ log' = [log EXCEPT ![frame[t].session].exchanges = @ + 1,
                          ![frame[t].session].last = NowRunning]
    /\ UNCHANGED <<sessions, objs, how, frame, calls, pre, restVars>>

NotFound == [kind |-> "error", error |-> "Session not found"]

\* Mutant: the history of an unknown id creates the session, as get_response does.
get_session_history_begin_lazy(t) ==
    \E s \in Sids :
        /\ Begin(t, "get_session_history", s, "none")
        /\ Enter(t, "gh_lookup")
        /\ IF Present(s) THEN UNCHANGED storeVars ELSE create_session_store(s, NowAtStart)
        /\ UNCHANGED restVars

\* get_session_history, assistant.py:311-312.
get_session_history_begin(t) ==
    \E s \in Sids :
        /\ Begin(t, "get_session_history", s, "none")
        /\ IF Present(s)
           THEN Enter(t, "gh_lookup")
           ELSE ReturnAtOnce(t, NotFound)
        /\ UNCHANGED <<storeVars, restVars>>

\* assistant.py:314-323: the lookup and the walk over chat.history.
get_session_history_lookup(t) ==
    /\ pc[t] = "gh_lookup"
    /\ IF Present(frame[t].sid)
       THEN /\ frame' = [frame EXCEPT ![t].session = sessions[frame[t].sid],
                                      ![t].hist = Stored(frame[t].sid).history]
            /\ Goto(t, "gh_return")
       ELSE /\ Return(t, [kind |-> "raise", exc |-> "KeyError"])
            /\ UNCHANGED frame
    /\ UNCHANGED <<storeVars, calls, pre, restVars>>

\* assistant.py:325-330.
get_session_history_return(t) ==
    /\ pc[t] = "gh_return"
    /\ Return(t, [kind |-> "history",
                  session_id |-> frame[t].sid,
                  created_at |-> objs[frame[t].session].created_at,
                  message_count |-> objs[frame[t].session].message_count,
                  history |-> frame[t].hist])
    /\ frame' = [frame EXCEPT ![t].hist = <<>>]
    /\ UNCHANGED <<storeVars, calls, pre, restVars>>

\* end_session, assistant.py:342 and 346.
end_session_begin(t) ==
    \E s \in Sids :
        /\ Begin(t, "end_session", s, "none")
        /\ IF Present(s)
           THEN Enter(t, "es_del")
           ELSE ReturnAtOnce(t, NotFound)
        /\ UNCHANGED <<storeVars, restVars>>

\* Mutant: the session is reported ended and left in the store.
end_session_delete_keeps(t) ==
    /\ pc[t] = "es_del"
    /\ how' = [how EXCEPT ![frame[t].sid].as = "ended"]
    /\ Return(t, [kind |-> "ended", session_id |-> frame[t].sid])
    /\ UNCHANGED <<sessions, objs, log, frame, calls, pre, restVars>>

\* assistant.py:343-345: del self.sessions[session_id].
end_session_delete(t) ==
    /\ pc[t] = "es_del"
    /\ IF Present(frame[t].sid)
       THEN /\ sessions' = [sessions EXCEPT ![frame[t].sid] = NoSession]
            /\ how' = [how EXCEPT ![frame[t].sid].as = "ended"]
            /\ Return(t, [kind |-> "ended", session_id |-> frame[t].sid])
       ELSE /\ Return(t, [kind |-> "raise", exc |-> "KeyError"])
            /\ UNCHANGED <<sessions, how>>
    /\ UNCHANGED <<objs, log, frame, calls, pre, restVars>>

\* Mutant: the count is taken after the clear.
clear_all_sessions_begin_counts_late(t) ==
    /\ Start(t, [NoFrame EXCEPT !.op = "clear_all_sessions"],
             [NoPre EXCEPT !.nobjs = Len(objs), !.ids = ActiveIds,
                           !.alone = \A u \in Tasks : pc[u] = "idle", !.at = NowAtStart])
    /\ Enter(t, "ca_clear")
    /\ UNCHANGED <<storeVars, restVars>>

\* clear_all_sessions, assistant.py:350: count = len(self.sessions).
clear_all_sessions_begin(t) ==
    /\ Start(t, [NoFrame EXCEPT !.op = "clear_all_sessions", !.n = Cardinality(ActiveIds)],
             [NoPre EXCEPT !.nobjs = Len(objs), !.ids = ActiveIds,
                           !.alone = \A u \in Tasks : pc[u] = "idle", !.at = NowAtStart])
    /\ Enter(t, "ca_clear")
    /\ UNCHANGED <<storeVars, restVars>>

\* assistant.py:351-353: self.sessions.clear() and the message with the count.
clear_all_sessions_clear(t) ==
    /\ pc[t] = "ca_clear"
    /\ sessions' = [s \in Sids |-> NoSession]
    /\ how' = [s \in Sids |-> IF Present(s) THEN [how[s] EXCEPT !.as = "cleared"] ELSE how[s]]
    /\ Return(t, [kind |-> "cleared", count |-> frame[t].n])
    /\ frame' = [frame EXCEPT ![t].n = 0]
    /\ UNCHANGED <<objs, log, calls, pre, restVars>>

\* ------------------------------------------------------------ the annotator
\* Each vocabulary term alone, in lower case.
TermTexts ==
    { <<"e", "m", "e", "r", "g", "e", "n", "c", "y">>,
      <<"9", "1", "1">>,
      <<"u", "r", "g", "e", "n", "t", " ", "c", "a", "r", "e">>,
      <<"i", "m", "m", "e", "d", "i", "a", "t", "e", "l", "y">>,
      <<"c", "a", "l", "l", " ", "a", "n", " ", "a", "m", "b", "u", "l", "a", "n", "c", "e">>,
      <<"g", "o", " ", "t", "o", " ", "t", "h", "e", " ", "e", "r">>,
      <<"e", "m", "e", "r", "g", "e", "n", "c", "y", " ", "r", "o", "o", "m">>,
      <<"l", "i", "f", "e", "-", "t", "h", "r", "e", "a", "t", "e", "n", "i", "n", "g">>,
      <<"s", "e", "e", "k", " ", "i", "m", "m", "e", "d", "i", "a", "t", "e">>,
      <<"c", "r", "i", "t", "i", "c", "a", "l">> }

\* Each term in mixed case, "Go to the ER" as assistant.py:294 spells it.
MixedCaseTexts ==
    { <<"E", "m", "e", "r", "g", "e", "n", "c", "y">>,
      <<"9", "1", "1">>,
      <<"U", "r", "g", "e", "n", "t", " ", "C", "a", "r", "e">>,
      <<"I", "m", "m", "e", "d", "i", "a", "t", "e", "l", "y">>,
      <<"C", "a", "l", "l", " ", "A", "n", " ", "A", "m", "b", "u", "l", "a", "n", "c", "e">>,
      <<"G", "o", " ", "t", "o", " ", "t", "h", "e", " ", "E", "R">>,
      <<"E", "m", "e", "r", "g", "e", "n", "c", "y", " ", "R", "o", "o", "m">>,
      <<"L", "i", "f", "e", "-", "T", "h", "r", "e", "a", "t", "e", "n", "i", "n", "g">>,
      <<"S", "e", "e", "k", " ", "I", "m", "m", "e", "d", "i", "a", "t", "e">>,
      <<"C", "r", "i", "t", "i", "c", "a", "l">> }

\* Texts without a term, near misses, and texts with the dotless i (U+0131).
OtherTexts ==
    { <<>>,
      <<"r", "o", "u", "t", "i", "n", "e", " ", "c", "h", "e", "c", "k", "u", "p">>,
      <<"Y", "o", "u", " ", "s", "h", "o", "u", "l", "d", " ", "r", "e", "s", "t">>,
      <<"e", "m", "e", "r", "g", "e", "n", "c">>,
      <<"9", "1", " ", "1">>,
      <<"l", "i", "f", "e", " ", "t", "h", "r", "e", "a", "t", "e", "n", "i", "n", "g">>,
      <<"s", "e", "e", "k", " ", "h", "e", "l", "p">>,
      <<"c", "a", "l", "l", " ", "a", " ", "d", "o", "c", "t", "o", "r">>,
      <<"c", "r", "i_dotless", "t", "i_dotless", "c", "a", "l">>,
      <<"C", "R", "i_dotless", "T", "i_dotless", "C", "A", "L">>,
      <<"E", "M", "E", "R", "G", "E", "N", "C", "Y">>,
      <<"g", "o", " ", "t", "o", " ", "t", "h", "e", " ", "E", "R">> }

NegationPrefix ==
    <<"T", "h", "i", "s", " ", "i", "s", " ", "N", "O", "T", " ">>

\* The annotator's inputs: each term alone in lower, upper and mixed case, each term
\* negated in a sentence, and the other texts.
Texts ==
    TermTexts \cup {upper(x) : x \in TermTexts} \cup MixedCaseTexts
    \cup {NegationPrefix \o x : x \in TermTexts \cup MixedCaseTexts} \cup OtherTexts

AnnotInit ==
    /\ sessions = [s \in Sids |-> NoSession]
    /\ objs = <<>>
    /\ pc = [t \in Tasks |-> "idle"]
    /\ frame = [t \in Tasks |-> NoFrame]
    /\ result = [t \in Tasks |-> NoResult]
    /\ calls = 0
    /\ pre = [t \in Tasks |-> NoPre]
    /\ how = [s \in Sids |-> Fresh]
    /\ log = <<>>
    /\ atext \in Texts
    /\ aflags = <<FALSE, FALSE, FALSE>>
    /\ apc = "ready"
    /\ medical_assistant = "instance"

\* _detect_emergency applied to the text, to its upper-cased and to its lower-cased form.
Annotate ==
    /\ apc = "ready"
    /\ aflags' = <<detect_emergency(atext), detect_emergency(upper(atext)),
                   detect_emergency(lower(atext))>>
    /\ apc' = "done"
    /\ UNCHANGED <<sessions, objs, pc, frame, result, calls, pre, how, log, atext,
                   medical_assistant>>

AnnotNext == Annotate

\* The annotator alone, on every text of Texts.
AnnotSpec == AnnotInit /\ [][AnnotNext]_vars

\* ---------------------------------------------------------- specifications
\* In a concurrent run a task may start an operation while calls < MaxConcurrentCalls.
Room(t) == pc[t] # "idle" \/ calls < MaxConcurrentCalls

Next ==
    \E t \in Tasks :
        \/ Room(t) /\ create_session(t)
        \/ Room(t) /\ get_response_begin(t)
        \/ Room(t) /\ get_response_create(t)
        \/ Room(t) /\ get_response_lookup(t)
        \/ Room(t) /\ send_message_returns(t)
        \/ Room(t) /\ send_message_raises(t)
        \/ Room(t) /\ message_count_load(t)
        \/ Room(t) /\ message_count_store(t)
        \/ Room(t) /\ get_response_return(t)
        \/ Room(t) /\ get_session_history_begin(t)
        \/ Room(t) /\ get_session_history_lookup(t)
        \/ Room(t) /\ get_session_history_return(t)
        \/ Room(t) /\ end_session_begin(t)
        \/ Room(t) /\ end_session_delete(t)
        \/ Room(t) /\ clear_all_sessions_begin(t)
        \/ Room(t) /\ clear_all_sessions_clear(t)

\* Concurrent callers of the store, a task per request: the methods of
\* MedicalAssistant take no lock, and their steps interleave.
Spec == Init /\ [][Next]_vars

\* One request at a time: an operation starts when no other is running, as when
\* every caller is a handler of main.py on one event loop (the handlers call the
\* store without awaiting).
Alone(t) == \A u \in Tasks \ {t} : pc[u] = "idle"

SeqNext ==
    \E t \in Tasks :
        \/ Alone(t) /\ create_session(t)
        \/ Alone(t) /\ get_response_begin(t)
        \/ Alone(t) /\ get_response_create(t)
        \/ Alone(t) /\ get_response_lookup(t)
        \/ Alone(t) /\ send_message_returns(t)
        \/ Alone(t) /\ send_message_raises(t)
        \/ Alone(t) /\ message_count_load(t)
        \/ Alone(t) /\ message_count_store(t)
        \/ Alone(t) /\ get_response_return(t)
        \/ Alone(t) /\ get_session_history_begin(t)
        \/ Alone(t) /\ get_session_history_lookup(t)
        \/ Alone(t) /\ get_session_history_return(t)
        \/ Alone(t) /\ end_session_begin(t)
        \/ Alone(t) /\ end_session_delete(t)
        \/ Alone(t) /\ clear_all_sessions_begin(t)
        \/ Alone(t) /\ clear_all_sessions_clear(t)

SeqSpec == Init /\ [][SeqNext]_vars

\* A step of the operation that task t runs: the provider's answer or failure, or a
\* step of the method's own code.
Continue(t) ==
    \/ get_response_create(t)
    \/ get_response_lookup(t)
    \/ send_message_returns(t)
    \/ send_message_raises(t)
    \/ message_count_load(t)
    \/ message_count_store(t)
    \/ get_response_return(t)
    \/ get_session_history_lookup(t)
    \/ get_session_history_return(t)
    \/ end_session_delete(t)
    \/ clear_all_sessions_clear(t)

\* Concurrent callers under a fair scheduler and a provider that always answers or
\* fails in the end: a running operation that can take a step takes one.
FairSpec == Init /\ [][Next]_vars /\ \A t \in Tasks : WF_vars(Continue(t))

\* ------------------------------------------------------- the HTTP boundary
\* assistant.py:370-374 and 380-384: the dict returned when the instance is None.
NotInitialized ==
    [kind |-> "error", error |-> "assistant_not_initialized", message |-> "failed_to_initialize"]

\* assistant.py:390-391 and 397-398.
NotInitializedShort == [kind |-> "error", error |-> "Assistant not initialized"]

\* The instance is None: create_chat_session, assistant.py:368-375.
create_chat_session_none(t) ==
    \E s \in Sids :
        /\ Begin(t, "create_session", s, "none")
        /\ ReturnAtOnce(t, NotInitialized)
        /\ UNCHANGED <<storeVars, restVars>>

\* The instance is None: get_medical_response, assistant.py:378-385.
get_medical_response_none(t) ==
    \E s \in Sids, m \in Msgs :
        /\ Begin(t, "get_response", s, m)
        /\ ReturnAtOnce(t, NotInitialized)
        /\ UNCHANGED <<storeVars, restVars>>

\* The instance is None: get_chat_history, assistant.py:388-392.
get_chat_history_none(t) ==
    \E s \in Sids :
        /\ Begin(t, "get_session_history", s, "none")
        /\ ReturnAtOnce(t, NotInitializedShort)
        /\ UNCHANGED <<storeVars, restVars>>

\* The instance is None: end_chat_session, assistant.py:395-399.
end_chat_session_none(t) ==
    \E s \in Sids :
        /\ Begin(t, "end_session", s, "none")
        /\ ReturnAtOnce(t, NotInitializedShort)
        /\ UNCHANGED <<storeVars, restVars>>

\* What a handler that takes no session id saw as it began.
StoreSnapshot ==
    [NoPre EXCEPT !.nobjs = Len(objs), !.ids = ActiveIds,
                  !.alone = \A u \in Tasks : pc[u] = "idle", !.at = NowAtStart]

\* get_stats, main.py:173-178: len(medical_assistant.sessions).
get_stats(t) ==
    /\ Start(t, [NoFrame EXCEPT !.op = "get_stats"], StoreSnapshot)
    /\ ReturnAtOnce(t, [kind |-> "stats", active_sessions |-> Cardinality(ActiveIds)])
    /\ UNCHANGED <<storeVars, restVars>>

\* The instance is None: main.py:176, None has no attribute sessions.
get_stats_none(t) ==
    /\ Start(t, [NoFrame EXCEPT !.op = "get_stats"], StoreSnapshot)
    /\ ReturnAtOnce(t, [kind |-> "raise", exc |-> "AttributeError"])
    /\ UNCHANGED <<storeVars, restVars>>

\* The instance is None: main.py:183, None has no attribute clear_all_sessions.
clear_all_sessions_none(t) ==
    /\ Start(t, [NoFrame EXCEPT !.op = "clear_all_sessions"], StoreSnapshot)
    /\ ReturnAtOnce(t, [kind |-> "raise", exc |-> "AttributeError"])
    /\ UNCHANGED <<storeVars, restVars>>

\* The endpoints of main.py whose handler runs operation op.
Endpoints(op) ==
    CASE op = "get_response" -> {"/ask", "/chat"}
      [] op = "create_session" -> {"/session/create"}
      [] op = "get_session_history" -> {"/session/{session_id}/history"}
      [] op = "end_session" -> {"DELETE /session/{session_id}"}
      [] op = "get_stats" -> {"/stats"}
      [] op = "clear_all_sessions" -> {"/admin/clear-sessions"}
      [] OTHER -> {}

Ok200 == [status |-> 200, detail |-> <<>>]

\* What the server answers when a handler raises another exception than
\* HTTPException, or returns what its response_model rejects.
InternalServerError == [status |-> 500, detail |-> <<"Internal Server Error">>]

\* `"error" in response` on the dict r.
HasError(r) == r.kind = "error"

\* The response of the handler of endpoint e when its call returns r or raises.
\* main.py:106-112 and 128-134: the HTTPException raised in the try is caught by
\* `except Exception` and raised again with detail str(e), "500: " + its detail.
http_response(e, r) ==
    CASE e \in {"/ask", "/chat"} ->
           IF r.kind = "raise" THEN [status |-> 500, detail |-> <<r.exc>>]
           ELSE IF HasError(r) THEN [status |-> 500, detail |-> <<"500: ", r.message>>]
           ELSE Ok200
      [] e = "/session/create" ->
           IF r.kind = "raise" THEN [status |-> 500, detail |-> <<r.exc>>]
           ELSE IF HasError(r) THEN InternalServerError
           ELSE Ok200
      [] e \in {"/session/{session_id}/history", "DELETE /session/{session_id}"} ->
           IF r.kind = "raise" THEN [status |-> 500, detail |-> <<r.exc>>]
           ELSE IF HasError(r) THEN [status |-> 404, detail |-> <<"Session not found">>]
           ELSE Ok200
      [] OTHER ->
           IF r.kind = "raise" THEN InternalServerError ELSE Ok200

\* The process has started with or without its instance (assistant.py:357-364).
HttpInit ==
    /\ sessions = [s \in Sids |-> NoSession]
    /\ objs = <<>>
    /\ pc = [t \in Tasks |-> "idle"]
    /\ frame = [t \in Tasks |-> NoFrame]
    /\ result = [t \in Tasks |-> NoResult]
    /\ calls = 0
    /\ pre = [t \in Tasks |-> NoPre]
    /\ how = [s \in Sids |-> Fresh]
    /\ log = <<>>
    /\ atext = <<>>
    /\ aflags = <<FALSE, FALSE, FALSE>>
    /\ apc = "off"
    /\ medical_assistant \in {"instance", "None"}

\* The handler of task t calls into an instance, no other handler running.
Serves(t) == medical_assistant = "instance" /\ Alone(t)

\* The handler of task t runs in a process without an instance.
ServesNone(t) == medical_assistant = "None" /\ Alone(t)

HttpNext ==
    \E t \in Tasks :
        \/ Serves(t) /\ create_session(t)
        \/ Serves(t) /\ get_response_begin(t)
        \/ Serves(t) /\ get_response_create(t)
        \/ Serves(t) /\ get_response_lookup(t)
        \/ Serves(t) /\ send_message_returns(t)
        \/ Serves(t) /\ send_message_raises(t)
        \/ Serves(t) /\ message_count_load(t)
        \/ Serves(t) /\ message_count_store(t)
        \/ Serves(t) /\ get_response_return(t)
        \/ Serves(t) /\ get_session_history_begin(t)
        \/ Serves(t) /\ get_session_history_lookup(t)
        \/ Serves(t) /\ get_session_history_return(t)
        \/ Serves(t) /\ end_session_begin(t)
        \/ Serves(t) /\ end_session_delete(t)
        \/ Serves(t) /\ clear_all_sessions_begin(t)
        \/ Serves(t) /\ clear_all_sessions_clear(t)
        \/ Serves(t) /\ get_stats(t)
        \/ ServesNone(t) /\ create_chat_session_none(t)
        \/ ServesNone(t) /\ get_medical_response_none(t)
        \/ ServesNone(t) /\ get_chat_history_none(t)
        \/ ServesNone(t) /\ end_chat_session_none(t)
        \/ ServesNone(t) /\ get_stats_none(t)
        \/ ServesNone(t) /\ clear_all_sessions_none(t)

\* The handlers of main.py, one request at a time, in a process that has an
\* instance or has none.
HttpSpec == HttpInit /\ [][HttpNext]_vars

\* ------------------------------------------------------------------ claims
\* Task t has returned from operation o and no operation has started since.
Done(t, o) == pc[t] = "idle" /\ frame[t].op = o /\ result[t].kind # "none"

Quiescent == \A t \in Tasks : pc[t] = "idle"

\* Both tasks have returned a response from overlapping exchanges on the same id,
\* the first of which began with no operation running.
BothResponded ==
    /\ \A t \in Tasks : Done(t, "get_response") /\ result[t].kind = "response"
    /\ pre[FirstTask].alone
    /\ \A t, u \in Tasks : frame[t].sid = frame[u].sid

\* C1: when the exchanges of all tasks ran concurrently on one id and all returned a
\* response, the id's stored count is the count before the first of them plus their
\* number, their results carry distinct message_count values, and the stored
\* conversation has grown by two turns for each.
C1_NoLostIncrement ==
    BothResponded =>
        LET s == frame[FirstTask].sid
            k == Cardinality(Tasks)
        IN  /\ Present(s)
            /\ Stored(s).message_count = pre[FirstTask].count + k
            /\ \A t, u \in Tasks : t # u => result[t].message_count # result[u].message_count
            /\ Len(Stored(s).history) = pre[FirstTask].turns + 2 * k

\* The result is a failure of the provider: of start_chat or of send_message.
ProviderFailed(r) == r.kind = "error" /\ r.error \in Errors \cup {"e_start_chat"}

C3_UnknownIdCreated ==
    \A t \in Tasks :
        (Done(t, "get_response") /\ pre[t].obj = NoSession /\ ~ProviderFailed(result[t])) =>
            /\ result[t].kind = "response"
            /\ result[t].message_count = 1
            /\ Present(frame[t].sid)
            /\ Stored(frame[t].sid).message_count = 1

\* An exchange on a never-seen id has returned its response, with another session
\* already in the store.
C3_Witness ==
    \E t \in Tasks :
        /\ Done(t, "get_response")
        /\ pre[t].obj = NoSession
        /\ pre[t].how.as = "fresh"
        /\ result[t].kind = "response"
        /\ \E s \in Sids \ {frame[t].sid} : Present(s)

CountStep(s, d) ==
    Stored(s)'.message_count = Stored(s).message_count + d

ExchangeStores(s) ==
    \E t \in Tasks :
        /\ frame[t].op = "get_response"
        /\ frame[t].sid = s
        /\ pc[t] = "gr_store"
        /\ pc'[t] = "gr_return"
        /\ frame[t].response \in Replies

\* The step is a create_session on s that stores a new session.
CreateReplaces(s) ==
    \E t \in Tasks :
        /\ pc[t] = "idle"
        /\ frame'[t].op = "create_session"
        /\ frame'[t].sid = s
        /\ result'[t].kind = "created"
        /\ sessions'[s] # sessions[s]

Vocabulary == TermTexts

\* One of the terms occurs in the text, compared case-insensitively.
InVocabulary(text) == \E term \in Vocabulary : Contains(lower(text), term)

\* C6: the annotator answers true exactly when one of the ten vocabulary terms occurs
\* in the text compared case-insensitively.
C6_FlagIffTermOccurs ==
    apc = "done" => (aflags[1] = InVocabulary(atext))

\* C7 as claimed: the annotator gives the same answer on a text, on its upper-cased
\* form and on its lower-cased form.
C7_SameInAnyCase ==
    apc = "done" => (aflags[1] = aflags[2] /\ aflags[1] = aflags[3])

Text_EMERGENCY == <<"E", "M", "E", "R", "G", "E", "N", "C", "Y">>
Text_emergency == <<"e", "m", "e", "r", "g", "e", "n", "c", "y">>
Text_routine_checkup == <<"r", "o", "u", "t", "i", "n", "e", " ", "c", "h", "e", "c", "k", "u", "p">>

\* C7 amended: the annotator gives the same answer on a text and on its lower-cased
\* form, and on its upper-cased form too when upper-casing changes no letter but
\* its case (lower(upper(text)) = lower(text), as for every ASCII text); "EMERGENCY"
\* and "emergency" give true, "routine checkup" gives false.
C7_SameInAnyCaseOfAscii ==
    apc = "done" =>
        /\ aflags[1] = aflags[3]
        /\ (lower(upper(atext)) = lower(atext)) => (aflags[1] = aflags[2])
        /\ atext \in {Text_EMERGENCY, Text_emergency} => aflags[1]
        /\ atext = Text_routine_checkup => ~aflags[1]

\* The annotator has answered true on an upper-case text whose lower-cased form differs.
C7_Witness ==
    /\ apc = "done"
    /\ atext = Text_EMERGENCY
    /\ lower(atext) # atext
    /\ aflags = <<TRUE, TRUE, TRUE>>

\* C8: an exchange that began on an id whose session had been ended, and returned a
\* response, has stored a new session object under the id: the result and the stored
\* session have count 1, created_at is the time of this exchange, later than that of
\* every earlier session, and the conversation holds the new turn alone.
C8_EndThenExchangeStartsAnew ==
    \A t \in Tasks :
        (Done(t, "get_response") /\ result[t].kind = "response" /\ pre[t].how.as = "ended") =>
            LET s == frame[t].sid
            IN  /\ result[t].message_count = 1
                /\ Present(s)
                /\ sessions[s] > pre[t].nobjs
                /\ sessions[s] # pre[t].how.obj
                /\ Stored(s).message_count = 1
                /\ Stored(s).created_at = log[sessions[s]].born
                /\ \A o \in 1..pre[t].nobjs : objs[o].created_at < Stored(s).created_at
                /\ Stored(s).history = << <<"user", frame[t].msg>>,
                                          <<"model", frame[t].response>> >>

\* The exchange has returned on an id whose ended session had counted two exchanges.
C8_Witness ==
    \E t \in Tasks :
        /\ Done(t, "get_response")
        /\ result[t].kind = "response"
        /\ pre[t].how.as = "ended"
        /\ objs[pre[t].how.obj].message_count = 2
        /\ result[t].message_count = 1

\* C9: clear_all_sessions reports the number of sessions the store held when it
\* began and leaves the store empty; get_session_history and end_session on an id
\* that has been absent since a clear return NotFound.
C9_ClearAllCountsAndEmpties ==
    \A t \in Tasks :
        /\ Done(t, "clear_all_sessions") =>
            /\ result[t].kind = "cleared"
            /\ result[t].count = Cardinality(pre[t].ids)
            /\ ActiveIds = {}
        /\ ((Done(t, "get_session_history") \/ Done(t, "end_session"))
                /\ pre[t].how.as = "cleared") => result[t] = NotFound

\* After a clear of a store of two sessions, the history of a former id was asked for.
C9_Witness ==
    \E t \in Tasks :
        /\ Done(t, "get_session_history")
        /\ result[t] = NotFound
        /\ \A s \in Sids : how[s].as = "cleared"

\* Task t starts operation o on id s in this step.
Starts(t, o, s) ==
    /\ pc[t] = "idle"
    /\ calls' = calls + 1
    /\ frame'[t].op = o
    /\ frame'[t].sid = s

\* C10: a get_session_history or an end_session that starts on an absent id returns
\* NotFound in that step, without raising, and leaves the store as it is: no session
\* is created under the id and no other session is touched.
C10_AbsentIdIsNotFound ==
    [][\A t \in Tasks, s \in Sids :
        ((Starts(t, "get_session_history", s) \/ Starts(t, "end_session", s)) /\ ~Present(s)) =>
            /\ pc'[t] = "idle"
            /\ result'[t] = NotFound
            /\ sessions' = sessions
            /\ objs' = objs]_vars

\* end_session has returned NotFound for an absent id while the store holds a session
\* with a counted exchange under the other id.
C10_Witness ==
    \E t \in Tasks :
        /\ Done(t, "end_session")
        /\ result[t] = NotFound
        /\ ~Present(frame[t].sid)
        /\ \E s \in Sids : Present(s) /\ Stored(s).message_count >= 1

\* C11: a create_session that starts on a present id returns in that step, "created"
\* or the failure of start_chat and nothing else; when it returns "created", the id
\* holds a new session object with count 0, an empty conversation, no
\* last_interaction and a created_at later than the replaced session's, every other
\* id holds the object it held, and no existing object has changed.
C11_CreateOverwrites ==
    [][\A t \in Tasks, s \in Sids :
        (Starts(t, "create_session", s) /\ Present(s)) =>
            /\ pc'[t] = "idle"
            /\ result'[t] \in {[kind |-> "created", session_id |-> s], CreateFailed}
            /\ result'[t].kind = "created" =>
                /\ sessions'[s] = Len(objs) + 1
                /\ Len(objs') = Len(objs) + 1
                /\ Stored(s)'.message_count = 0
                /\ Stored(s)'.history = <<>>
                /\ Stored(s)'.last_interaction = NoTime
                /\ Stored(s)'.created_at > Stored(s).created_at
                /\ \A other \in Sids \ {s} : sessions'[other] = sessions[other]
                /\ \A o \in 1..Len(objs) : objs'[o] = objs[o]]_vars

\* create_session has replaced a session with two counted exchanges while the other
\* id holds a session with a counted exchange.
C11_Witness ==
    \E t \in Tasks :
        /\ Done(t, "create_session")
        /\ result[t].kind = "created"
        /\ pre[t].count >= 2
        /\ pre[t].last # NoTime
        /\ Stored(frame[t].sid).history = <<>>
        /\ \E other \in Sids \ {frame[t].sid} :
            Present(other) /\ Stored(other).message_count >= 1

\* The response of the handler of endpoint e as a process without an instance
\* should give it: status 500 and the not-configured message in the detail.
NotConfiguredResponse(resp) ==
    /\ resp.status = 500
    /\ \E i \in 1..Len(resp.detail) : resp.detail[i] = NotInitialized.message

\* C12: in a process without an instance, every request to a session-dependent
\* endpoint is answered, and answered by the not-configured error.
C12_NotConfiguredEverywhere ==
    \A t \in Tasks :
        (medical_assistant = "None" /\ pc[t] = "idle" /\ frame[t].op # "none") =>
            /\ result[t].kind # "none"
            /\ \A e \in Endpoints(frame[t].op) :
                NotConfiguredResponse(http_response(e, result[t]))

\* The operation of task t was a get_session_history or an end_session on an id
\* that the store of an instance did not hold when it began.
AbsentIdReferenced(t) ==
    /\ medical_assistant = "instance"
    /\ frame[t].op \in {"get_session_history", "end_session"}
    /\ pre[t].obj = NoSession

\* C13: the response to a finished request has status 404 exactly when the request
\* was a history or a delete on an id absent from the store; every other error, the
\* not-configured one included, has status 500, and the not-configured response has
\* another detail than the not-found response.
C13_NotFoundIff404 ==
    \A t \in Tasks :
        (pc[t] = "idle" /\ result[t].kind # "none") =>
            \A e \in Endpoints(frame[t].op) :
                LET resp == http_response(e, result[t])
                IN  /\ (resp.status = 404) = AbsentIdReferenced(t)
                    /\ result[t].kind \in {"error", "raise"} =>
                       resp.status = IF AbsentIdReferenced(t) THEN 404 ELSE 500
                    /\ medical_assistant = "None" =>
                       resp.detail # http_response(e, NotFound).detail

\* The step is a step of an exchange of task t.
ExchangeStep(t) == pc'[t] # pc[t] /\ frame'[t].op = "get_response"

\* The operations that tasks t and u run or have last run are exchanges on different
\* ids that overlap: one began with no operation running, the other was the next
\* operation to begin, and no operation has begun since.
OverlapOnDistinctIds(t, u) ==
    /\ t # u
    /\ frame[t].op = "get_response"
    /\ frame[u].op = "get_response"
    /\ frame[t].sid # frame[u].sid
    /\ pre[FirstTask].alone
    /\ \/ pre[t].at = pre[u].at + 1
       \/ pre[u].at = pre[t].at + 1

\* C14: no step of an exchange writes the entry or the session of another id; and an
\* exchange that has returned, having overlapped with an exchange on another id,
\* leaves its session as it would alone: a response has counted one exchange and
\* added two turns to the session it found or created, a failure of the send has
\* counted none, and a failure of start_chat has created no session.
C14_DistinctIdsIndependent ==
    /\ [][\A t \in Tasks, s \in Sids :
            (ExchangeStep(t) /\ s # frame'[t].sid) =>
                /\ sessions'[s] = sessions[s]
                /\ Present(s) => Stored(s)' = Stored(s)]_vars
    /\ [](\A t, u \in Tasks :
            (OverlapOnDistinctIds(t, u) /\ Done(t, "get_response")) =>
                LET s == frame[t].sid
                IN  /\ result[t].kind \in {"response", "error"}
                    /\ Present(s) = (result[t] # CreateFailed)
                    /\ pre[t].obj # NoSession => sessions[s] = pre[t].obj
                    /\ result[t].kind = "response" =>
                        /\ result[t].message_count = pre[t].count + 1
                        /\ Stored(s).message_count = pre[t].count + 1
                        /\ Len(Stored(s).history) = pre[t].turns + 2
                    /\ (result[t].kind = "error" /\ result[t].error \in Errors) =>
                        /\ Stored(s).message_count = pre[t].count
                        /\ Len(Stored(s).history) = pre[t].turns)

\* An exchange on one id is waiting for the provider, and the exchange on another
\* id that began after it has returned its response, on a session with an earlier
\* exchange.
C14_Witness ==
    \E t, u \in Tasks :
        /\ OverlapOnDistinctIds(t, u)
        /\ pc[u] = "gr_wait"
        /\ pre[t].at = pre[u].at + 1
        /\ Done(t, "get_response")
        /\ result[t].kind = "response"
        /\ result[t].message_count = 2
        /\ Present(frame[u].sid)

\* C15: the is_emergency of a response is the annotator's answer on the reply text of
\* that response, whatever the user's message, the earlier turns and the count: the
\* reply "You should rest and monitor your symptoms" gives false and the reply "This
\* may be an emergency - call 911 immediately" gives true.
C15_FlagOfThisReplyOnly ==
    \A t \in Tasks :
        (Done(t, "get_response") /\ result[t].kind = "response") =>
            /\ result[t].is_emergency = detect_emergency(ReplyText(result[t].assistant_response))
            /\ result[t].assistant_response = "r_rest" => ~result[t].is_emergency
            /\ result[t].assistant_response = "r_911" => result[t].is_emergency

\* The third exchange on a session has returned a reply without a term and the flag
\* false, after a first reply without a term and a second with one, the user's
\* message itself holding a term.
C15_Witness ==
    \E t \in Tasks :
        /\ Done(t, "get_response")
        /\ result[t].kind = "response"
        /\ result[t].message_count = 3
        /\ ~result[t].is_emergency
        /\ detect_emergency(MsgText(result[t].user_message))
        /\ LET h == Stored(frame[t].sid).history
           IN  /\ Len(h) = 6
               /\ h[2] = <<"model", "r_rest">>
               /\ h[4] = <<"model", "r_911">>
               /\ h[6] = <<"model", "r_rest">>

\* The step is a step of the operation of task t: its start or a later step.
Acts(t) ==
    \/ pc[t] = "idle" /\ calls' = calls + 1 /\ frame'[t].op # "none"
    \/ pc'[t] # pc[t]

\* The operation of task t is one that has no business with the session of id s: a
\* create_session, an exchange or an end_session on another id, or a
\* get_session_history.
Bystander(t, s) ==
    \/ frame'[t].op \in {"create_session", "get_response", "end_session"} /\ frame'[t].sid # s
    \/ frame'[t].op = "get_session_history"

\* The session stored under id s before the step is not stored under it after.
Leaves(s) == Present(s) /\ sessions'[s] # sessions[s]

\* The step is a step of an end_session on id s or of a clear_all_sessions.
EndsOrClears(s) ==
    \E t \in Tasks :
        /\ Acts(t)
        /\ \/ frame'[t].op = "end_session" /\ frame'[t].sid = s
           \/ frame'[t].op = "clear_all_sessions"

\* A step of a bystander leaves the session of id s in the store with its count, its
\* created_at and its conversation.
BystandersKeep(s) ==
    \A t \in Tasks :
        (Acts(t) /\ Bystander(t, s)) =>
            /\ sessions'[s] = sessions[s]
            /\ Stored(s)'.message_count = Stored(s).message_count
            /\ Stored(s)'.created_at = Stored(s).created_at
            /\ Stored(s)'.history = Stored(s).history

\* C16 as claimed: a step after which a stored session is no longer in the store is
\* a step of an end_session on its id or of a clear_all_sessions; a step of a
\* create_session, an exchange or an end_session on another id, or of a
\* get_session_history, leaves the session as it is.
C16_OnlyEndOrClearRemoves ==
    [][\A s \in Sids :
        Present(s) =>
            /\ Leaves(s) => EndsOrClears(s)
            /\ BystandersKeep(s)]_vars

\* C16 amended: a step after which a stored session is no longer in the store is a
\* step of an end_session on its id and leaves the id absent, or of a
\* clear_all_sessions and leaves the id absent, or of a create_session on its id,
\* which stores a new session under the id; the bystanders leave the session as it is.
C16_OnlyEndClearOrCreateRemoves ==
    [][\A s \in Sids :
        Present(s) =>
            /\ Leaves(s) =>
                \/ EndsOrClears(s) /\ ~Present(s)'
                \/ CreateReplaces(s) /\ Present(s)' /\ Stored(s)'.message_count = 0
            /\ BystandersKeep(s)]_vars

\* A session with two counted exchanges is in the store after an end_session on the
\* other id has removed the session of that id.
C16_Witness ==
    \E t \in Tasks, s \in Sids :
        /\ Done(t, "end_session")
        /\ result[t].kind = "ended"
        /\ frame[t].sid # s
        /\ ~Present(frame[t].sid)
        /\ Present(s)
        /\ Stored(s).message_count = 2
        /\ Len(Stored(s).history) = 4

\* The failure message of error e mentions the word, in any case.
Mentions(e, word) == Contains(lower(ErrorText(e)), word)

Word_quota == <<"q", "u", "o", "t", "a">>
Word_rate_limit == <<"r", "a", "t", "e", " ", "l", "i", "m", "i", "t">>
Word_permission == <<"p", "e", "r", "m", "i", "s", "s", "i", "o", "n">>

\* The class the claim gives to a failure of the provider: transient for a quota or
\* a rate limit, permission for a permission, unknown for any other.
ClaimedClass(e) ==
    IF Mentions(e, Word_quota) \/ Mentions(e, Word_rate_limit) THEN "quota_exceeded"
    ELSE IF Mentions(e, Word_permission) THEN "permission_denied"
    ELSE "api_error"

\* C17: an exchange whose send has failed returns, without raising, an error result
\* with the session id, the provider's message and the class of the failure: transient
\* when the message mentions a quota or a rate limit, permission when it mentions a
\* permission, unknown otherwise.
C17_FailureClassified ==
    \A t \in Tasks :
        (Done(t, "get_response") /\ frame[t].session # NoSession /\ result[t].kind # "response") =>
            /\ result[t].kind = "error"
            /\ result[t].session_id = frame[t].sid
            /\ result[t].error \in Errors
            /\ result[t].message = ClaimedClass(result[t].error)

\* C18: an operation calls chat.send_message at most once, and only an exchange calls
\* it; an exchange that has got past creation and lookup has called it exactly once,
\* whether it returned a response or an error, and a response has added one user
\* turn and one model turn to the conversation.
C18_NoRetry ==
    \A t \in Tasks :
        /\ frame[t].sends <= 1
        /\ frame[t].op # "get_response" => frame[t].sends = 0
        /\ (Done(t, "get_response") /\ frame[t].session # NoSession) =>
            /\ frame[t].sends = 1
            /\ result[t].kind = "response" =>
               Len(objs[frame[t].session].history) = pre[t].turns + 2
            /\ result[t].kind = "error" =>
               Len(objs[frame[t].session].history) = pre[t].turns

\* An exchange on a session with a counted exchange has returned the quota error,
\* having sent the message once.
C18_Witness ==
    \E t \in Tasks :
        /\ Done(t, "get_response")
        /\ result[t].kind = "error"
        /\ result[t].error = "e_quota"
        /\ frame[t].sends = 1
        /\ pre[t].count >= 1

\* C19: an exchange that began on an absent id and whose send has failed has returned
\* an error and left a session under the id, with count 0, no last_interaction and an
\* empty conversation: the store holds the ids it held and this one.  And a
\* get_session_history on a present id returns the session's count and conversation.
C19_LazyCreationStays ==
    \A t \in Tasks :
        /\ (Done(t, "get_response") /\ pre[t].obj = NoSession /\ result[t].kind = "error"
                /\ result[t].error \in Errors) =>
            LET s == frame[t].sid
            IN  /\ Present(s)
                /\ Stored(s).message_count = 0
                /\ Stored(s).last_interaction = NoTime
                /\ Stored(s).history = <<>>
                /\ ActiveIds = pre[t].ids \cup {s}
                /\ Cardinality(ActiveIds) = Cardinality(pre[t].ids) + 1
        /\ (Done(t, "get_session_history") /\ pre[t].obj # NoSession) =>
            /\ result[t].kind = "history"
            /\ result[t].message_count = pre[t].count
            /\ Len(result[t].history) = pre[t].turns

\* An exchange on an id the store never held has returned a failure of the send, the
\* store holding a session under the other id: it holds two now.
C19_Witness ==
    \E t \in Tasks :
        /\ Done(t, "get_response")
        /\ pre[t].obj = NoSession
        /\ pre[t].how.as = "fresh"
        /\ result[t].kind = "error"
        /\ result[t].error \in Errors
        /\ Cardinality(pre[t].ids) = 1
        /\ Cardinality(ActiveIds) = 2

\* The conversation is one user turn followed by one model turn per exchange.
Alternates(h) ==
    \A i \in 1..Len(h) : h[i][1] = IF i % 2 = 1 THEN "user" ELSE "model"

\* C20: between requests, every session in the store has a conversation of exactly
\* 2 * message_count turns, a user turn then a model turn for each counted exchange;
\* and what get_session_history returns has 2 * message_count entries in that order.
C20_HistoryIsTwiceCount ==
    /\ Quiescent =>
        \A s \in Sids :
            Present(s) =>
                /\ Len(Stored(s).history) = 2 * Stored(s).message_count
                /\ Alternates(Stored(s).history)
    /\ \A t \in Tasks :
        (Done(t, "get_session_history") /\ result[t].kind = "history") =>
            /\ Len(result[t].history) = 2 * result[t].message_count
            /\ Alternates(result[t].history)
            /\ result[t].history = objs[frame[t].session].history

\* get_session_history has returned the four turns of a session with two counted
\* exchanges, the second reply another than the first, while the other id holds a
\* session without an exchange.
C20_Witness ==
    \E t \in Tasks :
        /\ Done(t, "get_session_history")
        /\ result[t].kind = "history"
        /\ result[t].message_count = 2
        /\ Len(result[t].history) = 4
        /\ result[t].history[2] # result[t].history[4]
        /\ \E other \in Sids \ {frame[t].sid} :
            Present(other) /\ Stored(other).message_count = 0

\* Task u has returned from the end_session or the clear_all_sessions that removed
\* the session of the id on which task t runs, or has last run, an exchange: the
\* exchange began with no operation running, the removal was the next operation to
\* begin, it found the session in the store, and no operation has begun since.
RemovedDuringExchange(t, u) ==
    /\ t # u
    /\ frame[t].op = "get_response"
    /\ pre[t].alone
    /\ pre[u].at = pre[t].at + 1
    /\ pc[u] = "idle"
    /\ \/ /\ frame[u].op = "end_session"
          /\ frame[u].sid = frame[t].sid
          /\ result[u].kind = "ended"
       \/ /\ frame[u].op = "clear_all_sessions"
          /\ frame[t].sid \in pre[u].ids
          /\ result[u].kind = "cleared"

\* C21: no step of an exchange from the send on writes an entry of the store; and
\* once an end_session on the id or a clear_all_sessions has removed the session
\* during an exchange, the id is absent while the exchange goes on and when it has
\* returned, and an exchange that held the session returns, for a reply, a
\* response with the count of the removed session plus one.
C21_EndedSessionStaysAbsent ==
    /\ [][\A t \in Tasks :
            (pc[t] \in {"gr_wait", "gr_load", "gr_store", "gr_return"} /\ pc'[t] # pc[t]) =>
                sessions' = sessions]_vars
    /\ [](\A t, u \in Tasks :
            RemovedDuringExchange(t, u) =>
                /\ ~Present(frame[t].sid)
                /\ (Done(t, "get_response") /\ frame[t].response \in Replies) =>
                    /\ result[t].kind = "response"
                    /\ result[t].message_count = pre[t].count + 1
                    /\ objs[frame[t].session].message_count = pre[t].count + 1)

\* The second exchange on a session has returned its response with message_count 2,
\* after an end_session that began during the exchange has ended the session: the
\* id is absent.
C21_Witness ==
    \E t, u \in Tasks :
        /\ RemovedDuringExchange(t, u)
        /\ frame[u].op = "end_session"
        /\ Done(t, "get_response")
        /\ result[t].kind = "response"
        /\ result[t].message_count = 2
        /\ ~Present(frame[t].sid)

\* C22: every operation that a task runs returns in the end, with a result or an
\* error: whatever the other task runs, on the same id or on another.
C22_EveryRequestCompletes ==
    \A t \in Tasks : (pc[t] # "idle") ~> (pc[t] = "idle" /\ result[t].kind # "none")

\* Two exchanges on the same id that ran at the same time have both returned.
C22_Witness ==
    /\ \A t \in Tasks : Done(t, "get_response") /\ result[t].kind = "response"
    /\ \A t, u \in Tasks : frame[t].sid = frame[u].sid
    /\ \E t \in Tasks : ~pre[t].alone

====
